---- MODULE Spec2Model ----
(***************************************************************************)
(* Model of scripts/migrate-users.js: the consolidation of the two         *)
(* per-instance user collections (instances/instance1/users and            *)
(* instances/instance2/users) into the unified collection 'users'.         *)
(*                                                                         *)
(* One action per stretch of code between two awaits of migrateUsers: the  *)
(* remote operation that is awaited (a collection read, a document lookup, *)
(* a batch commit) either resolves or rejects, and the action is the code  *)
(* that runs from there up to the next await.  A rejected await is caught  *)
(* by the single try/catch of migrateUsers (lines 18, 160-162), except a   *)
(* rejected batch.commit(), which is caught inside the commit loop (lines  *)
(* 120-127).                                                               *)
(*                                                                         *)
(* The try/catch of lines 91-109 around WriteBatch.set is not given a      *)
(* failing branch: set() only queues the write locally, on a batch that    *)
(* has not been committed and with data just read from the store.          *)
(*                                                                         *)
(* Four specifications: Spec (one execution of the script), SpecRerun (the *)
(* script executed twice), SpecWriter (one execution while another client  *)
(* creates a document in 'users') and SpecGate (the route guard of the     *)
(* admin dashboard, components/ProtectedRoute.js, with the script idle).   *)
(***************************************************************************)
EXTENDS Integers, Sequences, FiniteSets, TLC

(***************************************************************************)
(* Bounds of the model.                                                    *)
(***************************************************************************)
\* Number of distinct document ids that occur in the stores.
NumKeys == 3
\* Any of the remote operations of a run may reject: only the number of
\* documents is bounded.

(***************************************************************************)
(* Program constants.                                                      *)
(***************************************************************************)
\* const batchSize = 450 (line 68), scaled down so that a partition of a
\* few records fills a batch, fills it exactly, and overflows it.
batchSize == 2
\* The two calls of migrateInstance (lines 132-133).
NumInstances == 2
\* Number of documents another writer creates in 'users' during a run.
MaxExternal == 1

Keys == 1..NumKeys
Instances == 1..NumInstances

\* The second argument of migrateInstance (lines 132-133).
InstanceName(p) == IF p = 1 THEN "instance1" ELSE "instance2"

\* A key without a document in 'users'.
Absent == [exists |-> FALSE]

\* Documents that are in 'users' before the first run, written by someone
\* else: those of even id carry an 'instance' field, those of odd id carry
\* none ("" stands for no field).
PreDoc(k) ==
    [exists |-> TRUE, data |-> "V1",
     instance |-> IF k % 2 = 0 THEN "instance1" ELSE "",
     migratedAt |-> "none"]

\* The placeholder FieldValue.serverTimestamp() (line 89): the store puts
\* its own time in the field when the write is committed.  A document has
\* migratedAt "none" (no such field), "placeholder" or "time".
ServerTimestamp == "placeholder"

\* The subsets of Keys as snapshots: a collection read without orderBy
\* returns the documents in ascending order of document id.
RECURSIVE SortedSeq(_)
SortedSeq(S) ==
    IF S = {} THEN <<>>
    ELSE LET m == CHOOSE x \in S : \A y \in S : x <= y
         IN <<m>> \o SortedSeq(S \ {m})

\* Position of document id k in a snapshot (0 when it is not in it).
IndexOf(s, k) ==
    IF \E n \in 1..Len(s) : s[n] = k
    THEN CHOOSE n \in 1..Len(s) : s[n] = k
    ELSE 0

InSeq(s, k) == IndexOf(s, k) > 0

VARIABLES
    dest,            \* the collection 'users': document id -> document or Absent
    inst,            \* the collections instances/<instance>/users: sorted ids
    pc,              \* position of the script
    snap,            \* instance1Snapshot, instance2Snapshot (lines 34, 38)
    cur,             \* the instance migrateInstance was called for (0: none yet)
    i,               \* index in snapshot.docs of the document being handled
    batches,         \* const batches = [] (line 69)
    currentBatch,    \* let currentBatch = db.batch() (line 70)
    operationCount,  \* let operationCount = 0 (line 71)
    bi,              \* index + 1 of the commit loop (line 119)
    migratedCount,   \* line 61
    errorCount,      \* line 62
    skippedCount,    \* line 63
    instanceCounts,  \* line 140
    warned,          \* the warning of line 154 has been logged
    exitCode,        \* argument of process.exit (lines 169, 173), -1: running
    rerun,           \* FALSE in the first execution of the script
    \* ---- history, read by the properties only ----
    dest0,           \* 'users' when the current run started
    st,              \* per source document <<p, k>>: what this run did with it
    perInst,         \* the increments of the three counters, per instance
    attempts,        \* the commit attempts of this run, in order
    failedAt,        \* the await whose rejection ended the run ("" if none)
    rejected,        \* the source documents <<p, k>> whose lookup rejected
    writes,          \* per id: the set() writes committed to 'users', all runs
    prev,            \* st and outcome of the previous run
    \* ---- another writer of 'users' ----
    ext,             \* the ids it has created a document for
    \* ---- the admin dashboard (ProtectedRoute.js) ----
    user,            \* useAuth().user (NoUser: null)
    loading,         \* useAuth().loading
    route,           \* the page the router shows
    view,            \* what ProtectedRoute rendered last ("none": not mounted)
    effect,          \* the effect of lines 10-14 is scheduled
    nav,             \* target of a router.push that has not completed ("": none)
    redirected       \* history: push('/login') was called since the last render

vars == <<dest, inst, pc, snap, cur, i, batches, currentBatch, operationCount,
          bi, migratedCount, errorCount, skippedCount, instanceCounts,
          warned, exitCode, rerun, dest0, st, perInst, attempts, failedAt,
          rejected, writes, prev, ext, user, loading, route, view, effect,
          nav, redirected>>


(***************************************************************************)
(* Control: where the script is between two awaits.                        *)
(*   "Load"      the process has started, nothing has run  (line 1)        *)
(*   "Crashed"   lines 1-13 threw, process exited                          *)
(*   "GetUsers"  await usersCollectionRef.get()            (line 21)       *)
(*   "Read1"     await ...('instances/instance1/users')    (line 34)       *)
(*   "Read2"     await ...('instances/instance2/users')    (line 38)       *)
(*   "Check"     await usersCollectionRef.doc(userId).get() (line 78)      *)
(*   "Commit"    await batch.commit()                      (line 121)      *)
(*   "Verify"    await usersCollectionRef.get()            (line 136)      *)
(*   "Done"      the try block ran to its end (line 158), process exited   *)
(*   "Failed"    the catch of line 160 ran, process exited                 *)
(***************************************************************************)

\* The local variables of one call of migrateInstance, with the position.
Frame(f_pc, f_cur, f_i, f_batches, f_currentBatch, f_operationCount, f_bi) ==
    [pc |-> f_pc, cur |-> f_cur, i |-> f_i, batches |-> f_batches,
     currentBatch |-> f_currentBatch, operationCount |-> f_operationCount,
     bi |-> f_bi]

CurrentFrame == Frame(pc, cur, i, batches, currentBatch, operationCount, bi)

SetFrame(f) ==
    /\ pc' = f.pc
    /\ cur' = f.cur
    /\ i' = f.i
    /\ batches' = f.batches
    /\ currentBatch' = f.currentBatch
    /\ operationCount' = f.operationCount
    /\ bi' = f.bi

\* The call migrateInstance(snapshot of instance p, name of p), up to its
\* first await.  With no document in the snapshot neither loop has a turn,
\* the call returns and the next statement of migrateUsers runs; after the
\* last call that is the read of line 136.
RECURSIVE EnterInstance(_, _)
EnterInstance(p, s) ==
    IF p > NumInstances
    THEN Frame("Verify", p, 0, <<>>, <<>>, 0, 0)
    ELSE IF Len(s[p]) = 0
         THEN EnterInstance(p + 1, s)
         ELSE Frame("Check", p, 1, <<>>, <<>>, 0, 0)

\* Lines 112-114 without the test of line 112: the open batch is pushed
\* whatever it holds.
AfterDocAlwaysPush(f, s) ==
    IF f.i < Len(s[f.cur])
    THEN [f EXCEPT !.i = f.i + 1]
    ELSE [f EXCEPT !.pc = "Commit",
                   !.batches = Append(f.batches, f.currentBatch), !.bi = 1]

\* Line 119 skipped: the batches formed are dropped and the next call of
\* migrateInstance starts at once.
AfterDocNoCommit(f, s) ==
    IF f.i < Len(s[f.cur])
    THEN [f EXCEPT !.i = f.i + 1]
    ELSE EnterInstance(f.cur + 1, s)

\* After the body of the for loop of line 73 for document f.i (f holds the
\* updated locals): the next document, or lines 112-119 when the snapshot
\* is exhausted.
AfterDoc(f, s) ==
    IF f.i < Len(s[f.cur])
    THEN [f EXCEPT !.i = f.i + 1]
    ELSE LET bs == IF f.operationCount > 0
                   THEN Append(f.batches, f.currentBatch)
                   ELSE f.batches
         IN IF Len(bs) > 0
            THEN [f EXCEPT !.pc = "Commit", !.batches = bs, !.bi = 1]
            ELSE EnterInstance(f.cur + 1, s)

\* After one turn of the commit loop of line 119.
AfterCommit(f, s) ==
    IF f.bi < Len(f.batches)
    THEN [f EXCEPT !.bi = f.bi + 1]
    ELSE EnterInstance(f.cur + 1, s)

\* doc.data() of a document of instance p: not the value 'users' may hold.
SourceData(p) == IF p = 1 THEN "V2" ELSE "V3"

\* userData without line 86.
NewDocUntagged(p) ==
    [exists |-> TRUE, data |-> SourceData(p), instance |-> "",
     migratedAt |-> ServerTimestamp]

\* userData after lines 86 and 89, for a document of instance p.
NewDoc(p) ==
    [exists |-> TRUE, data |-> SourceData(p), instance |-> InstanceName(p),
     migratedAt |-> ServerTimestamp]

\* Lines 96-105 without line 103: the batch that was closed stays the open
\* one.
QueueWriteNoReset(f, k) ==
    LET cb == Append(f.currentBatch, [id |-> k, doc |-> NewDoc(f.cur)])
        oc == f.operationCount + 1
    IN IF oc >= batchSize
       THEN [f EXCEPT !.batches = Append(f.batches, cb),
                      !.currentBatch = <<cb[Len(cb)]>>, !.operationCount = 1]
       ELSE [f EXCEPT !.currentBatch = cb, !.operationCount = oc]

\* Lines 96-105: queue the write, close the batch when it is full.
QueueWrite(f, k) ==
    LET cb == Append(f.currentBatch, [id |-> k, doc |-> NewDoc(f.cur)])
        oc == f.operationCount + 1
    IN IF oc >= batchSize
       THEN [f EXCEPT !.batches = Append(f.batches, cb),
                      !.currentBatch = <<>>, !.operationCount = 0]
       ELSE [f EXCEPT !.currentBatch = cb, !.operationCount = oc]

\* What line 122 adds to migratedCount and line 126 to errorCount for the
\* batch of position index (from 1) out of n.
CountedSize(index, n, opCount) == IF index = n THEN opCount ELSE batchSize

\* A commit that resolves without a document being written.
ApplyBatchNowhere(d, b) == d

\* A commit that resolves with only its first write applied.
ApplyBatchFirstOnly(d, b) ==
    [k \in Keys |->
        IF Len(b) > 0 /\ b[1].id = k
        THEN [b[1].doc EXCEPT !.migratedAt =
                 IF @ = ServerTimestamp THEN "time" ELSE @]
        ELSE d[k]]

\* The store's all-or-nothing application of a batch of set() writes:
\* set() replaces the document whether or not one exists.
ApplyBatch(d, b) ==
    [k \in Keys |->
        IF \E n \in 1..Len(b) : b[n].id = k
        THEN LET w == b[CHOOSE n \in 1..Len(b) :
                         b[n].id = k /\ \A m \in (n+1)..Len(b) : b[m].id # k]
             IN [w.doc EXCEPT !.migratedAt =
                    IF @ = ServerTimestamp THEN "time" ELSE @]
        ELSE d[k]]

BatchKeys(b) == {b[n].id : n \in 1..Len(b)}

\* Line 142 without the default.
TagOfRaw(doc) == doc.instance

\* doc.data().instance || 'unknown' (line 142).
TagOf(doc) == IF doc.instance = "" THEN "unknown" ELSE doc.instance

\* Lines 140-144 with a counter that is not keyed by the tag.
CountByInstanceAll(d) ==
    LET present == {k \in Keys : d[k].exists}
    IN [t \in {TagOf(d[k]) : k \in present} |-> Cardinality(present)]

\* Lines 140-144 over a snapshot of 'users'.
CountByInstance(d) ==
    LET present == {k \in Keys : d[k].exists}
    IN [t \in {TagOf(d[k]) : k \in present} |->
            Cardinality({k \in present : TagOf(d[k]) = t})]

NoCounts == [p \in Instances |-> [migrated |-> 0, skipped |-> 0, errored |-> 0]]

FreshSt == [r \in Instances \X Keys |->
               IF InSeq(inst[r[1]], r[2]) THEN "Pending" ELSE "None"]

\* useAuth().user when nobody is signed in.
NoUser == "null"

\* The dashboard is not open in a browser.
DashboardClosed ==
    /\ user = NoUser /\ loading = TRUE
    /\ route = "/login" /\ view = "none"
    /\ effect = FALSE /\ nav = "" /\ redirected = FALSE

NoPrev == [outcome |-> "None", st |-> [r \in Instances \X Keys |-> "None"]]

Init ==
    /\ inst \in [Instances -> {SortedSeq(S) : S \in SUBSET Keys}]
    /\ \E P \in SUBSET Keys :
          dest = [k \in Keys |-> IF k \in P THEN PreDoc(k) ELSE Absent]
    /\ dest0 = dest
    /\ pc = "Load"
    /\ snap = [p \in Instances |-> <<>>]
    /\ cur = 0 /\ i = 0 /\ bi = 0
    /\ batches = <<>> /\ currentBatch = <<>> /\ operationCount = 0
    /\ migratedCount = 0 /\ errorCount = 0 /\ skippedCount = 0
    /\ instanceCounts = <<>>
    /\ warned = FALSE
    /\ exitCode = -1
    /\ rerun = FALSE
    /\ st = FreshSt
    /\ perInst = NoCounts
    /\ attempts = <<>>
    /\ failedAt = ""
    /\ rejected = {}
    /\ writes = [k \in Keys |-> 0]
    /\ prev = NoPrev
    /\ ext = {}
    /\ DashboardClosed

store == <<dest, inst>>
frame == <<cur, i, batches, currentBatch, operationCount, bi>>
counters == <<migratedCount, errorCount, skippedCount, perInst>>
report == <<instanceCounts, warned>>
runHistory == <<rerun, dest0, prev>>
gate == <<user, loading, route, view, effect, nav, redirected>>

\* A rejection that escapes migrateUsers to the catch of line 171.
RejectExit1(where) ==
    /\ pc' = "Failed"
    /\ failedAt' = where
    /\ exitCode' = 1
    /\ UNCHANGED <<store, snap, frame, counters, report,
                   runHistory, ext, gate, st, attempts, writes>>

\* A rejected await outside the commit loop: control goes to the catch of
\* line 160, migrateUsers resolves and the script exits (lines 167-170).
Reject(where) ==
    /\ pc' = "Failed"
    /\ failedAt' = where
    /\ exitCode' = 0
    /\ UNCHANGED <<store, snap, frame, counters, report,
                   runHistory, ext, gate, st, attempts, writes>>

\* Lines 1-13 run (the service account key is loaded, the app and the
\* store client are created); line 166 calls migrateUsers, which runs up
\* to the await of line 21.
Initialize ==
    /\ pc = "Load"
    /\ pc' = "GetUsers"
    /\ UNCHANGED <<store, snap, frame, counters, report, exitCode,
                   runHistory, ext, gate, st, attempts, failedAt, rejected, writes>>

\* Line 7 or lines 9-11 throw (no key file, a key that is not valid): the
\* exception is caught by nobody and the process ends with exit code 1.
InitializeFails ==
    /\ pc = "Load"
    /\ pc' = "Crashed"
    /\ exitCode' = 1
    /\ UNCHANGED <<store, snap, frame, counters, report,
                   runHistory, ext, gate, st, attempts, failedAt, rejected, writes>>

\* Line 21 resolves; lines 22-33 only log.
GetUsers ==
    /\ pc = "GetUsers"
    /\ pc' = "Read1"
    /\ UNCHANGED <<store, snap, frame, counters, report, exitCode,
                   runHistory, ext, gate, st, attempts, failedAt, rejected, writes>>

GetUsersFails == pc = "GetUsers" /\ Reject("GetUsers") /\ UNCHANGED rejected

\* Line 34 resolves.
ReadInstance1 ==
    /\ pc = "Read1"
    /\ snap' = [snap EXCEPT ![1] = inst[1]]
    /\ pc' = "Read2"
    /\ UNCHANGED <<store, frame, counters, report, exitCode,
                   runHistory, ext, gate, st, attempts, failedAt, rejected, writes>>

ReadInstance1Fails == pc = "Read1" /\ Reject("Read1") /\ UNCHANGED rejected

\* Line 38 resolves; lines 40-63 log and zero the counters; line 132 calls
\* migrateInstance for instance1.
ReadInstance2 ==
    /\ pc = "Read2"
    /\ snap' = [snap EXCEPT ![2] = inst[2]]
    /\ SetFrame(EnterInstance(1, snap'))
    /\ UNCHANGED <<store, counters, report, exitCode,
                   runHistory, ext, gate, st, attempts, failedAt, rejected, writes>>

ReadInstance2Fails == pc = "Read2" /\ Reject("Read2") /\ UNCHANGED rejected

\* Line 78 resolves with a document that exists: lines 79-83.
CheckExists ==
    /\ pc = "Check"
    /\ LET k == snap[cur][i] IN
        /\ dest[k].exists
        /\ skippedCount' = skippedCount + 1
        /\ perInst' = [perInst EXCEPT ![cur].skipped = @ + 1]
        /\ st' = [st EXCEPT ![<<cur, k>>] = "Skipped"]
    /\ SetFrame(AfterDoc(CurrentFrame, snap))
    /\ UNCHANGED <<store, snap, migratedCount, errorCount, report,
                   exitCode, runHistory, ext, gate, attempts, failedAt, rejected, writes>>

\* Line 79 answered from what 'users' held when the run started.
CheckAbsentStale ==
    /\ pc = "Check"
    /\ LET k == snap[cur][i] IN
        /\ ~dest0[k].exists
        /\ st' = [st EXCEPT ![<<cur, k>>] = "Queued"]
        /\ SetFrame(AfterDoc(QueueWrite(CurrentFrame, k), snap))
    /\ UNCHANGED <<store, snap, counters, report, exitCode,
                   runHistory, ext, gate, attempts, failedAt, rejected, writes>>

\* Lines 85-105 without the test of line 79.
CheckAbsentUnguarded ==
    /\ pc = "Check"
    /\ LET k == snap[cur][i] IN
        /\ st' = [st EXCEPT ![<<cur, k>>] = "Queued"]
        /\ SetFrame(AfterDoc(QueueWrite(CurrentFrame, k), snap))
    /\ UNCHANGED <<store, snap, counters, report, exitCode,
                   runHistory, ext, gate, attempts, failedAt, rejected, writes>>

\* Line 78 resolves with no document: lines 85-105.
CheckAbsent ==
    /\ pc = "Check"
    /\ LET k == snap[cur][i] IN
        /\ ~dest[k].exists
        /\ st' = [st EXCEPT ![<<cur, k>>] = "Queued"]
        /\ SetFrame(AfterDoc(QueueWrite(CurrentFrame, k), snap))
    /\ UNCHANGED <<store, snap, counters, report, exitCode,
                   runHistory, ext, gate, attempts, failedAt, rejected, writes>>

\* A rejected lookup taken for "no such document": the write is queued.
CheckFailsOpen ==
    /\ pc = "Check"
    /\ LET k == snap[cur][i] IN
        /\ rejected' = rejected \cup {<<cur, k>>}
        /\ st' = [st EXCEPT ![<<cur, k>>] = "Queued"]
        /\ SetFrame(AfterDoc(QueueWrite(CurrentFrame, k), snap))
    /\ UNCHANGED <<store, snap, counters, report, exitCode,
                   runHistory, ext, gate, attempts, failedAt, writes>>

\* Line 78 rejects: nothing in migrateInstance catches it.
CheckFails ==
    /\ pc = "Check"
    /\ rejected' = rejected \cup {<<cur, snap[cur][i]>>}
    /\ Reject("Check")

\* What the commit loop adds to a counter for the batch it is at.
Counted == CountedSize(bi, Len(batches), operationCount)

\* Number of set() writes of batch b for id k.
WritesIn(b, k) == Cardinality({n \in 1..Len(b) : b[n].id = k})

\* A commit that also deletes the documents it wrote from their source
\* collection (a move instead of a copy).
CommitOkMove ==
    /\ pc = "Commit"
    /\ dest' = ApplyBatch(dest, batches[bi])
    /\ inst' = [inst EXCEPT ![cur] =
                   SelectSeq(@, LAMBDA k : k \notin BatchKeys(batches[bi]))]
    /\ writes' = [k \in Keys |-> writes[k] + WritesIn(batches[bi], k)]
    /\ migratedCount' = migratedCount + Counted
    /\ perInst' = [perInst EXCEPT ![cur].migrated = @ + Counted]
    /\ st' = [r \in Instances \X Keys |->
                IF r[1] = cur /\ r[2] \in BatchKeys(batches[bi])
                THEN "Committed" ELSE st[r]]
    /\ attempts' = Append(attempts, [p |-> cur, index |-> bi,
                                     size |-> Len(batches[bi]), ok |-> TRUE])
    /\ SetFrame(AfterCommit(CurrentFrame, snap))
    /\ UNCHANGED <<snap, errorCount, skippedCount, report,
                   exitCode, runHistory, ext, gate, failedAt, rejected>>

\* Line 121 resolves: lines 122-123.
CommitOk ==
    /\ pc = "Commit"
    /\ dest' = ApplyBatch(dest, batches[bi])
    /\ writes' = [k \in Keys |-> writes[k] + WritesIn(batches[bi], k)]
    /\ migratedCount' = migratedCount + Counted
    /\ perInst' = [perInst EXCEPT ![cur].migrated = @ + Counted]
    /\ st' = [r \in Instances \X Keys |->
                IF r[1] = cur /\ r[2] \in BatchKeys(batches[bi])
                THEN "Committed" ELSE st[r]]
    /\ attempts' = Append(attempts, [p |-> cur, index |-> bi,
                                     size |-> Len(batches[bi]), ok |-> TRUE])
    /\ SetFrame(AfterCommit(CurrentFrame, snap))
    /\ UNCHANGED <<inst, snap, errorCount, skippedCount, report,
                   exitCode, runHistory, ext, gate, failedAt, rejected>>

\* A rejected commit that is not caught in the loop.
CommitFailsFatal ==
    /\ pc = "Commit"
    /\ errorCount' = errorCount + Counted
    /\ perInst' = [perInst EXCEPT ![cur].errored = @ + Counted]
    /\ st' = [r \in Instances \X Keys |->
                IF r[1] = cur /\ r[2] \in BatchKeys(batches[bi])
                THEN "Failed" ELSE st[r]]
    /\ attempts' = Append(attempts, [p |-> cur, index |-> bi,
                                     size |-> Len(batches[bi]), ok |-> FALSE])
    /\ pc' = "Failed"
    /\ failedAt' = "Commit"
    /\ exitCode' = 0
    /\ UNCHANGED <<store, snap, frame, migratedCount, skippedCount,
                   report, runHistory, ext, gate, rejected, writes>>

\* A rejected commit that has written the first document of its batch.
CommitFailsPartial ==
    /\ pc = "Commit"
    /\ dest' = ApplyBatch(dest, <<batches[bi][1]>>)
    /\ writes' = [k \in Keys |-> writes[k] + WritesIn(<<batches[bi][1]>>, k)]
    /\ errorCount' = errorCount + Counted
    /\ perInst' = [perInst EXCEPT ![cur].errored = @ + Counted]
    /\ st' = [r \in Instances \X Keys |->
                IF r[1] = cur /\ r[2] \in BatchKeys(batches[bi])
                THEN "Failed" ELSE st[r]]
    /\ attempts' = Append(attempts, [p |-> cur, index |-> bi,
                                     size |-> Len(batches[bi]), ok |-> FALSE])
    /\ SetFrame(AfterCommit(CurrentFrame, snap))
    /\ UNCHANGED <<inst, snap, migratedCount, skippedCount, report,
                   exitCode, runHistory, ext, gate, failedAt, rejected>>

\* A rejected commit that is attempted once more before the loop goes on.
CommitFailsRetry ==
    /\ pc = "Commit"
    /\ errorCount' = errorCount + Counted
    /\ perInst' = [perInst EXCEPT ![cur].errored = @ + Counted]
    /\ st' = [r \in Instances \X Keys |->
                IF r[1] = cur /\ r[2] \in BatchKeys(batches[bi])
                THEN "Failed" ELSE st[r]]
    /\ attempts' = Append(attempts, [p |-> cur, index |-> bi,
                                     size |-> Len(batches[bi]), ok |-> FALSE])
    /\ IF \E n \in 1..Len(attempts) :
              attempts[n].p = cur /\ attempts[n].index = bi
       THEN SetFrame(AfterCommit(CurrentFrame, snap))
       ELSE SetFrame(CurrentFrame)
    /\ UNCHANGED <<store, snap, migratedCount, skippedCount, report,
                   exitCode, runHistory, ext, gate, failedAt, rejected, writes>>

\* Line 121 rejects: lines 124-127, and the loop goes on.
CommitFails ==
    /\ pc = "Commit"
    /\ errorCount' = errorCount + Counted
    /\ perInst' = [perInst EXCEPT ![cur].errored = @ + Counted]
    /\ st' = [r \in Instances \X Keys |->
                IF r[1] = cur /\ r[2] \in BatchKeys(batches[bi])
                THEN "Failed" ELSE st[r]]
    /\ attempts' = Append(attempts, [p |-> cur, index |-> bi,
                                     size |-> Len(batches[bi]), ok |-> FALSE])
    /\ SetFrame(AfterCommit(CurrentFrame, snap))
    /\ UNCHANGED <<store, snap, migratedCount, skippedCount, report,
                   exitCode, runHistory, ext, gate, failedAt, rejected, writes>>

\* Line 136 resolves: lines 137-158, then lines 167-170.
Verify ==
    /\ pc = "Verify"
    /\ instanceCounts' = CountByInstance(dest)
    /\ warned' = (errorCount > 0)
    /\ pc' = "Done"
    /\ exitCode' = 0
    /\ UNCHANGED <<store, snap, frame, counters, runHistory, ext, gate, st, attempts,
                   failedAt, rejected, writes>>

VerifyFails == pc = "Verify" /\ Reject("Verify") /\ UNCHANGED rejected

\* The script is started a second time, against the stores as the first
\* run left them.
Restart ==
    /\ pc \in {"Done", "Failed"}
    /\ ~rerun
    /\ rerun' = TRUE
    /\ prev' = [outcome |-> pc, st |-> st]
    /\ dest0' = dest
    /\ pc' = "Load"
    /\ snap' = [p \in Instances |-> <<>>]
    /\ cur' = 0 /\ i' = 0 /\ bi' = 0
    /\ batches' = <<>> /\ currentBatch' = <<>> /\ operationCount' = 0
    /\ migratedCount' = 0 /\ errorCount' = 0 /\ skippedCount' = 0
    /\ instanceCounts' = <<>>
    /\ warned' = FALSE
    /\ exitCode' = -1
    /\ st' = FreshSt
    /\ perInst' = NoCounts
    /\ attempts' = <<>>
    /\ failedAt' = ""
    /\ rejected' = {}
    /\ UNCHANGED <<store, writes, ext, gate>>

Next ==
    \/ Initialize
    \/ InitializeFails
    \/ GetUsers
    \/ GetUsersFails
    \/ ReadInstance1
    \/ ReadInstance1Fails
    \/ ReadInstance2
    \/ ReadInstance2Fails
    \/ CheckExists
    \/ CheckAbsent
    \/ CheckFails
    \/ CommitOk
    \/ CommitFails
    \/ Verify
    \/ VerifyFails

\* One execution of the script.
Spec == Init /\ [][Next]_vars

NextRerun ==
    \/ Next
    \/ Restart

\* The script executed, then executed again.
SpecRerun == Init /\ [][NextRerun]_vars

\* The document another writer creates.
ExternalDoc ==
    [exists |-> TRUE, data |-> "V4", instance |-> "", migratedAt |-> "none"]

\* Another client of the store creates a document in 'users' for an id that
\* has none, while the script runs.
ExternalWrite ==
    /\ pc \in {"GetUsers", "Read1", "Read2", "Check", "Commit", "Verify"}
    /\ Cardinality(ext) < MaxExternal
    /\ \E k \in Keys :
          /\ ~dest[k].exists
          /\ dest' = [dest EXCEPT ![k] = ExternalDoc]
          /\ ext' = ext \cup {k}
    /\ UNCHANGED <<inst, pc, snap, frame, counters, report, exitCode,
                   runHistory, gate, st, attempts, failedAt, rejected, writes>>

NextWriter ==
    \/ Next
    \/ ExternalWrite

\* One execution of the script while another client writes to 'users'.
SpecWriter == Init /\ [][NextWriter]_vars

(***************************************************************************)
(* The admin dashboard: ProtectedRoute (ProtectedRoute.js, lines 6-29), in *)
(* which DashboardLayout wraps every page it lays out (DashboardLayout.js, *)
(* lines 29-31).  user and loading are what useAuth() returns; the         *)
(* provider that sets them is not part of the sources at hand, so they     *)
(* change to any values.  A render and its commit are one step; the        *)
(* effect of a commit runs after it and before the next render.  The page  *)
(* "/" (Home, part_000 lines 80-98) sends the browser to "/dashboard" or   *)
(* to "/login".                                                            *)
(***************************************************************************)
\* The values useAuth().user takes when somebody is signed in.
Users == {"u1", "u2"}

\* The pages laid out by DashboardLayout, and the routes.
ProtectedPaths == {"/dashboard", "/users", "/users/[id]"}
Routes == ProtectedPaths \cup {"/", "/login"}

Mounted == route \in ProtectedPaths

\* Lines 16-28 without the test of line 24.
RenderUngated(u, l) == IF l THEN "spinner" ELSE "children"

\* Lines 16-28: what ProtectedRoute returns for user u and loading l.
Render(u, l) ==
    IF l THEN "spinner"
    ELSE IF u = NoUser THEN "redirecting"
    ELSE "children"

script == <<dest, inst, pc, snap, frame, counters, report, exitCode,
            runHistory, st, attempts, failedAt, rejected, writes, ext>>

\* useAuth() returns new values (line 7): the component renders again with
\* them (lines 16-28) and, its dependencies having changed, the effect of
\* line 10 is scheduled.
AuthChange ==
    /\ ~effect
    /\ \E u \in Users \cup {NoUser}, l \in BOOLEAN :
          /\ <<u, l>> # <<user, loading>>
          /\ user' = u
          /\ loading' = l
          /\ view' = IF Mounted THEN Render(u, l) ELSE "none"
          /\ effect' = (Mounted \/ route = "/")
    /\ redirected' = FALSE
    /\ UNCHANGED <<script, route, nav>>

\* The effect of Home runs (part_000, lines 84-92).
HomeEffectRuns ==
    /\ effect
    /\ route = "/"
    /\ effect' = FALSE
    /\ nav' = IF loading THEN nav
              ELSE IF user # NoUser THEN "/dashboard" ELSE "/login"
    /\ UNCHANGED <<script, user, loading, route, view, redirected>>

\* The effect of lines 10-14 runs.
EffectRuns ==
    /\ effect
    /\ Mounted
    /\ effect' = FALSE
    /\ IF ~loading /\ user = NoUser
       THEN nav' = "/login" /\ redirected' = TRUE
       ELSE UNCHANGED <<nav, redirected>>
    /\ UNCHANGED <<script, user, loading, route, view>>

\* The navigation started by a router.push (line 12; part_000 lines 87,
\* 89) completes: the page pushed replaces the one shown, and when it is
\* laid out by DashboardLayout, ProtectedRoute is mounted anew.
RouteChange ==
    /\ ~effect
    /\ nav # ""
    /\ route' = nav
    /\ nav' = ""
    /\ view' = IF nav \in ProtectedPaths THEN Render(user, loading) ELSE "none"
    /\ effect' = (nav \in ProtectedPaths /\ nav # route)
    /\ redirected' = FALSE
    /\ UNCHANGED <<script, user, loading>>

\* Another page is opened (a NavItem link of lines 50-59, or the address
\* bar): "/", or a page laid out by DashboardLayout, where ProtectedRoute
\* is mounted anew.
OpenPage ==
    /\ ~effect
    /\ \E r \in ProtectedPaths \cup {"/"} :
          /\ r # route
          /\ route' = r
          /\ view' = IF r \in ProtectedPaths THEN Render(user, loading) ELSE "none"
    /\ nav' = ""
    /\ effect' = TRUE
    /\ redirected' = FALSE
    /\ UNCHANGED <<script, user, loading>>

\* The browser shows the login page, nobody is signed in and the script is
\* not running.
InitGate ==
    /\ Init
    /\ \A p \in Instances : inst[p] = <<>>
    /\ \A k \in Keys : ~dest[k].exists

NextGate ==
    \/ AuthChange
    \/ HomeEffectRuns
    \/ EffectRuns
    \/ RouteChange
    \/ OpenPage

SpecGate == InitGate /\ [][NextGate]_vars

TypeOK ==
    /\ pc \in {"Load", "Crashed", "GetUsers", "Read1", "Read2", "Check",
               "Commit", "Verify", "Done", "Failed"}
    /\ exitCode \in {-1, 0, 1}
    /\ warned \in BOOLEAN
    /\ cur \in 0..(NumInstances + 1)
    /\ operationCount \in 0..(batchSize - 1)
    /\ rerun \in BOOLEAN
    /\ ext \subseteq Keys
    /\ user \in Users \cup {NoUser}
    /\ loading \in BOOLEAN
    /\ route \in Routes
    /\ view \in {"none", "spinner", "redirecting", "children"}
    /\ effect \in BOOLEAN
    /\ nav \in {"", "/login", "/dashboard"}
    /\ redirected \in BOOLEAN


(***************************************************************************)
(* Vocabulary of the properties.                                           *)
(***************************************************************************)
Recs == Instances \X Keys

\* The documents of the source collections, as <<instance, id>>.
SourceRecs == {r \in Recs : InSeq(inst[r[1]], r[2])}

Terminal == {"Skipped", "Committed", "Failed"}

\* The lookup of line 78 for source document r has resolved in this run:
\* the loop of line 73 is past it.
Handled(r) ==
    /\ InSeq(snap[r[1]], r[2])
    /\ \/ r[1] < cur
       \/ r[1] = cur /\ (pc = "Commit" \/ IndexOf(snap[r[1]], r[2]) < i)

\* Number of source collections in which id k was counted as skipped.
SkippedTimes(k) == Cardinality({p \in Instances : st[<<p, k>>] = "Skipped"})

InstancesWith(k) == {p \in Instances : InSeq(inst[p], k)}

\* Total number of documents of the commit attempts with outcome ok.
RECURSIVE SumSizes(_, _)
SumSizes(a, ok) ==
    IF a = <<>> THEN 0
    ELSE (IF Head(a).ok = ok THEN Head(a).size ELSE 0) + SumSizes(Tail(a), ok)

AttemptsOf(p) == SelectSeq(attempts, LAMBDA a : a.p = p)

\* The document 'users' holds for r's id was written from r in this run.
WrittenFrom(r) ==
    /\ dest[r[2]].exists
    /\ dest[r[2]] # dest0[r[2]]
    /\ dest[r[2]].instance = InstanceName(r[1])

\* The previous run reached line 158 and none of its commits rejected.
PrevClean == prev.outcome = "Done" /\ \A r \in Recs : prev.st[r] # "Failed"

(***************************************************************************)
(* C1 as stated: a key that is in 'users' when a run starts has the same   *)
(* document after the run, and has been counted as skipped once for each   *)
(* source collection that contains it (each one in which the run has come  *)
(* to the key, to leave aside the runs that end before they get there).    *)
(***************************************************************************)
NoOverwriteAndSkipped ==
    pc \in {"Done", "Failed"} =>
        \A k \in Keys : dest0[k].exists =>
            /\ dest[k] = dest0[k]
            /\ \A p \in InstancesWith(k) :
                  (Handled(<<p, k>>) \/ <<p, k>> \in rejected)
                      => st[<<p, k>>] = "Skipped"

(***************************************************************************)
(* C1 as amended: a key that is in 'users' when a run starts keeps its     *)
(* document throughout the run, whatever the source collections hold, and  *)
(* is counted as skipped once for each source collection containing it     *)
(* whose lookup of the key has resolved: once per source collection that   *)
(* contains it when the run reaches its end.                               *)
(***************************************************************************)
NoOverwrite ==
    /\ \A k \in Keys : dest0[k].exists =>
          /\ dest[k] = dest0[k]
          /\ \A p \in Instances :
                Handled(<<p, k>>) => st[<<p, k>>] = "Skipped"
          /\ pc = "Done" => SkippedTimes(k) = Cardinality(InstancesWith(k))
    /\ skippedCount = Cardinality({r \in Recs : st[r] = "Skipped"})

NoOverwriteWitness ==
    /\ pc = "Done"
    /\ \E k \in Keys :
          /\ dest0[k].exists
          /\ InstancesWith(k) = Instances
          /\ SkippedTimes(k) = 2
          /\ dest[k].data = "V1"
    /\ \E r \in Recs : st[r] = "Committed"

(***************************************************************************)
(* C2 as stated: when a run has ended, migrated + skipped + errored of     *)
(* every source collection equals the number of its documents.             *)
(***************************************************************************)
Accounting ==
    pc = "Done" =>
        \A p \in Instances :
            perInst[p].migrated + perInst[p].skipped + perInst[p].errored
                = Len(inst[p])

(***************************************************************************)
(* C3: a source document whose lookup rejected is not added to a batch and *)
(* is not written to 'users' in that run.                                  *)
(***************************************************************************)
FailClosed ==
    \A r \in rejected :
        /\ st[r] = "Pending"
        /\ r[1] = cur =>
              /\ r[2] \notin BatchKeys(currentBatch)
              /\ \A n \in 1..Len(batches) : r[2] \notin BatchKeys(batches[n])
        /\ ~WrittenFrom(r)

FailClosedWitness ==
    /\ pc = "Failed"
    /\ \E r \in rejected : ~dest[r[2]].exists
    /\ \E r \in Recs : st[r] = "Queued"
    /\ \E r \in Recs : st[r] = "Committed"

(***************************************************************************)
(* C4 as stated: when the lookup of one document rejects, that document is *)
(* counted as errored and every other document of the run is still         *)
(* checked and then skipped or committed.                                  *)
(***************************************************************************)
LookupFailureIsolation ==
    (pc \in {"Done", "Failed"} /\ rejected # {}) =>
        /\ errorCount >= Cardinality(rejected)
        /\ \A r \in SourceRecs \ rejected : st[r] \in Terminal

(***************************************************************************)
(* C5 as stated: when the read of one source collection rejects, the       *)
(* documents of the other source collection are still checked and          *)
(* committed or skipped in the same run.                                   *)
(***************************************************************************)
PartitionReadIsolation ==
    (pc = "Failed" /\ failedAt \in {"Read1", "Read2"}) =>
        LET unread == IF failedAt = "Read1" THEN 1 ELSE 2
        IN \A r \in SourceRecs : r[1] # unread => st[r] \in Terminal

(***************************************************************************)
(* C6 as stated: every commit that resolves adds the number of documents   *)
(* of its batch to migrated, so that migrated is the total size of the     *)
(* batches committed so far.                                               *)
(***************************************************************************)
CommitSuccessAccounting == migratedCount = SumSizes(attempts, TRUE)

(***************************************************************************)
(* C7 as stated: every commit that rejects leaves none of its documents in *)
(* 'users' and adds the number of documents of its batch to errored, so    *)
(* that errored is the total size of the batches rejected so far.          *)
(***************************************************************************)
CommitFailureAccounting ==
    /\ errorCount = SumSizes(attempts, FALSE)
    /\ \A r \in Recs : st[r] = "Failed" => ~WrittenFrom(r)

(***************************************************************************)
(* C8: a rejected commit does not end the run.  The commits of a source    *)
(* collection are attempted one after the other whatever their outcomes,   *)
(* so that once the run is past a source collection none of its documents  *)
(* is left unchecked or queued, and a run in which a commit rejected ends  *)
(* at line 158 unless a later lookup or the read of line 136 rejects.      *)
(***************************************************************************)
BatchFailureNotFatal ==
    /\ \A r \in SourceRecs : r[1] < cur => st[r] \in Terminal
    /\ pc = "Commit" =>
          /\ Len(AttemptsOf(cur)) = bi - 1
          /\ \A n \in 1..(bi - 1) : AttemptsOf(cur)[n].index = n
    /\ (\E n \in 1..Len(attempts) : ~attempts[n].ok) =>
          /\ pc = "Failed" => failedAt \in {"Check", "Verify"}
          /\ failedAt \in {"", "Check", "Verify"}

BatchFailureNotFatalWitness ==
    /\ pc = "Done"
    /\ Len(attempts) >= 3
    /\ attempts[1] = [p |-> 1, index |-> 1, size |-> batchSize, ok |-> FALSE]
    /\ attempts[2].p = 1 /\ attempts[2].index = 2 /\ attempts[2].ok
    /\ attempts[3].p = 2 /\ attempts[3].ok

(***************************************************************************)
(* C9 as stated: a run that follows another run reports migrated = 0 and   *)
(* skipped = size for every source collection and leaves 'users' as it     *)
(* was (both runs taken to have reached their end).                        *)
(***************************************************************************)
Idempotence ==
    (rerun /\ prev.outcome = "Done" /\ pc = "Done") =>
        /\ migratedCount = 0
        /\ \A p \in Instances : perInst[p].skipped = Len(inst[p])
        /\ dest = dest0

(***************************************************************************)
(* C9 as amended: a run that follows a run which reached its end with      *)
(* every commit resolved queues nothing, reports migrated = 0 and leaves   *)
(* 'users' as it was; when it reaches its end it reports skipped = size    *)
(* for every source collection.                                            *)
(***************************************************************************)
IdempotentRerun ==
    (rerun /\ PrevClean) =>
        /\ migratedCount = 0
        /\ dest = dest0
        /\ \A r \in SourceRecs : st[r] \in {"Pending", "Skipped"}
        /\ batches = <<>> /\ currentBatch = <<>>
        /\ pc = "Done" =>
              \A p \in Instances : perInst[p].skipped = Len(inst[p])

IdempotentRerunWitness ==
    /\ rerun /\ PrevClean
    /\ pc = "Done"
    /\ \E r \in Recs : prev.st[r] = "Committed" /\ r[1] = 1
    /\ \E r \in Recs : prev.st[r] = "Committed" /\ r[1] = 2
    /\ skippedCount = Len(inst[1]) + Len(inst[2])

(***************************************************************************)
(* C10 as stated: the run that follows a run in which commits resolved and *)
(* rejected skips the documents that were committed and attempts again     *)
(* the documents whose batch rejected; when all its commits resolve every  *)
(* id of the source collections is in 'users'.                             *)
(***************************************************************************)
ReinvocationSafety ==
    (rerun /\ pc = "Done") =>
        /\ \A r \in Recs :
              /\ prev.st[r] = "Committed" => st[r] = "Skipped"
              /\ prev.st[r] = "Failed" => st[r] \in {"Committed", "Failed"}
        /\ (\A r \in Recs : st[r] # "Failed") =>
              \A r \in SourceRecs : dest[r[2]].exists

(***************************************************************************)
(* C10 as amended: the run that follows skips every document that was      *)
(* committed, and every document whose batch rejected is either attempted  *)
(* again (found absent, queued, its batch committed) or skipped because    *)
(* the copy of the same id in the other source collection has been         *)
(* committed in the meantime; when the run reaches its end with all its    *)
(* commits resolved, every id of the source collections is in 'users'.     *)
(***************************************************************************)
ReinvocationSafe ==
    /\ rerun =>
          \A r \in Recs : Handled(r) =>
              /\ prev.st[r] = "Committed" => st[r] = "Skipped"
              /\ prev.st[r] = "Failed" =>
                    \/ st[r] \in {"Queued", "Committed", "Failed"}
                    \/ /\ st[r] = "Skipped"
                       /\ dest[r[2]].exists
                       /\ dest[r[2]].instance # InstanceName(r[1])
                       /\ dest[r[2]].migratedAt = "time"
    /\ (pc = "Done" /\ \A r \in Recs : st[r] # "Failed") =>
          \A r \in SourceRecs : dest[r[2]].exists

ReinvocationSafeWitness ==
    /\ rerun /\ pc = "Done"
    /\ \E r \in Recs : prev.st[r] = "Committed" /\ st[r] = "Skipped"
    /\ \E r \in Recs : prev.st[r] = "Failed" /\ st[r] = "Committed"
    /\ \A r \in SourceRecs : dest[r[2]].exists

\* Number of documents of instance p whose lookup found no document in
\* 'users' in this run: the writes queued for p.
QueuedOf(p) ==
    Cardinality({k \in Keys : st[<<p, k>>] \in {"Queued", "Committed", "Failed"}})

\* ceil(a / b), b > 0.
Ceil(a, b) == (a + b - 1) \div b

(***************************************************************************)
(* C11: the batches formed for a source collection of which k documents    *)
(* were found absent from 'users' are ceil(k / batchSize) in number, each  *)
(* holds between 1 and batchSize writes and each but the last holds        *)
(* batchSize; the batches committed are those, so no empty batch is formed *)
(* or committed (k = 0 and k a multiple of batchSize included).  While     *)
(* the documents are still looked up the closed batches are all full and   *)
(* the open one holds the remainder.                                       *)
(***************************************************************************)
BatchSizing ==
    /\ \A n \in 1..Len(batches) :
          /\ Len(batches[n]) \in 1..batchSize
          /\ n < Len(batches) => Len(batches[n]) = batchSize
    /\ Len(currentBatch) = operationCount
    /\ operationCount < batchSize
    /\ pc = "Check" =>
          /\ \A n \in 1..Len(batches) : Len(batches[n]) = batchSize
          /\ Len(batches) * batchSize + operationCount = QueuedOf(cur)
          /\ \A r \in SourceRecs : Handled(r) /\ r[1] = cur =>
                (st[r] = "Queued" <=> ~dest[r[2]].exists)
    /\ pc = "Commit" =>
          /\ Len(batches) = Ceil(QueuedOf(cur), batchSize)
          /\ Len(batches) >= 1
    /\ \A p \in Instances : p < cur =>
          /\ Len(AttemptsOf(p)) = Ceil(QueuedOf(p), batchSize)
          /\ \A n \in 1..Len(AttemptsOf(p)) :
                n < Len(AttemptsOf(p)) => AttemptsOf(p)[n].size = batchSize
    /\ \A n \in 1..Len(attempts) : attempts[n].size \in 1..batchSize

BatchSizingWitness ==
    /\ pc = "Commit" /\ cur = 2
    /\ Len(batches) = 1 /\ Len(batches[1]) = batchSize /\ operationCount = 0
    /\ Len(AttemptsOf(1)) = 2
    /\ AttemptsOf(1)[1].size = batchSize /\ AttemptsOf(1)[2].size = 1

(***************************************************************************)
(* C12: every document the run writes into 'users' carries the field       *)
(* 'instance', not empty and equal to the name of the source collection    *)
(* the document was read from, the data of that source document, and a     *)
(* time of migration; so does every write that is queued.                  *)
(***************************************************************************)
Provenance ==
    /\ \A k \in Keys : dest[k] # dest0[k] =>
          /\ dest[k].exists
          /\ dest[k].instance # ""
          /\ dest[k].migratedAt = "time"
          /\ \E p \in Instances :
                /\ st[<<p, k>>] = "Committed"
                /\ dest[k].instance = InstanceName(p)
                /\ dest[k].data = SourceData(p)
    /\ \A n \in 1..Len(batches) : \A m \in 1..Len(batches[n]) :
          /\ batches[n][m].doc.instance = InstanceName(cur)
          /\ batches[n][m].doc.instance # ""
          /\ batches[n][m].doc.migratedAt = ServerTimestamp
    /\ \A m \in 1..Len(currentBatch) :
          /\ currentBatch[m].doc.instance = InstanceName(cur)
          /\ currentBatch[m].doc.migratedAt = ServerTimestamp

ProvenanceWitness ==
    /\ pc = "Done"
    /\ \E k \in Keys : dest[k] # dest0[k] /\ dest[k].instance = "instance1"
    /\ \E k \in Keys : dest[k] # dest0[k] /\ dest[k].instance = "instance2"

(***************************************************************************)
(* C13 as stated: a run is not ended by a rejected read of a source        *)
(* collection or a rejected lookup: it goes on to the other documents and  *)
(* collections, to the read of line 136 and to the summary.                *)
(***************************************************************************)
RunCompletion ==
    pc = "Failed" => failedAt \notin {"Read1", "Read2", "Check"}

(***************************************************************************)
(* C14: a run that reaches the summary exits with code 0, also when        *)
(* errors were counted; so does a run ended by a rejection inside          *)
(* migrateUsers; the exit code is not zero only when lines 7-13 throw,     *)
(* before anything is read or written; no exit code is set before the run  *)
(* ends.                                                                   *)
(***************************************************************************)
ExitCodeZero ==
    /\ pc \in {"Done", "Failed"} => exitCode = 0
    /\ exitCode \notin {-1, 0} <=> pc = "Crashed"
    /\ pc = "Crashed" =>
          /\ failedAt = "" /\ attempts = <<>> /\ cur = 0
          /\ \A p \in Instances : snap[p] = <<>>
    /\ pc \notin {"Done", "Failed", "Crashed"} => exitCode = -1

ExitCodeZeroWitness ==
    /\ pc = "Done" /\ exitCode = 0 /\ errorCount > 0
    /\ \E n \in 1..Len(attempts) : ~attempts[n].ok

\* The count lines 146-149 print for tag t.
CountFor(t) == IF t \in DOMAIN instanceCounts THEN instanceCounts[t] ELSE 0

\* Number of documents tagged with instance p that 'users' held when the
\* run started.
PreCount(p) ==
    Cardinality({k \in Keys : dest0[k].exists /\ TagOf(dest0[k]) = InstanceName(p)})

\* Number of documents of instance p written into 'users' by this run.
MigratedFrom(p) == Cardinality({k \in Keys : st[<<p, k>>] = "Committed"})

(***************************************************************************)
(* C15: at the end of a run the count printed for the tag of a source      *)
(* collection is the number of documents of that collection the run wrote  *)
(* plus the number of documents with that tag 'users' held before the run  *)
(* (whether or not a commit rejected: the documents of a rejected batch    *)
(* are not written); the count printed for 'unknown' is the number of      *)
(* untagged documents held before the run.                                 *)
(***************************************************************************)
VerificationTally ==
    pc = "Done" =>
        /\ \A p \in Instances :
              CountFor(InstanceName(p)) = MigratedFrom(p) + PreCount(p)
        /\ CountFor("unknown") =
              Cardinality({k \in Keys : dest0[k].exists /\ TagOf(dest0[k]) = "unknown"})

VerificationTallyWitness ==
    /\ pc = "Done"
    /\ \A n \in 1..Len(attempts) : attempts[n].ok
    /\ MigratedFrom(1) >= 1 /\ PreCount(1) >= 1
    /\ MigratedFrom(2) >= 1
    /\ CountFor("instance1") = MigratedFrom(1) + PreCount(1)

(***************************************************************************)
(* C16 as stated: at the end of a run, when the count printed for the tag  *)
(* of a source collection differs from what the run counted as migrated    *)
(* for it plus the documents with that tag held before the run, a warning  *)
(* has been printed.                                                       *)
(***************************************************************************)
VerificationMismatchWarned ==
    pc = "Done" =>
        \A p \in Instances :
            CountFor(InstanceName(p)) # perInst[p].migrated + PreCount(p)
                => warned

\* The counters of the summary (lines 151-155).
Summary ==
    [migrated |-> migratedCount, skipped |-> skippedCount, errored |-> errorCount]

(***************************************************************************)
(* C17 as stated: the counters the summary gives are, for each source      *)
(* collection, the numbers of migrated, skipped and errored documents      *)
(* counted for the documents of that collection.                           *)
(***************************************************************************)
PerPartitionReporting ==
    pc = "Done" => \A p \in Instances : Summary = perInst[p]

(***************************************************************************)
(* C18 as stated: no lookup of a source collection is issued while a full  *)
(* batch of that collection is waiting to be committed.                    *)
(***************************************************************************)
FlushBeforeNextCheck == pc = "Check" => batches = <<>>

(***************************************************************************)
(* C19: over a run and the run that follows it each id of 'users' is       *)
(* written at most once, also when both source collections hold the id; a  *)
(* document 'users' held when a run started is the same throughout the     *)
(* run; an id never written holds what it held before the first run, and   *)
(* an id written holds a document of a source collection.                  *)
(***************************************************************************)
CreatedOnce ==
    \A k \in Keys :
        /\ writes[k] <= 1
        /\ dest0[k].exists => dest[k] = dest0[k]
        /\ writes[k] = 0 => dest[k] \in {Absent, PreDoc(k)}
        /\ writes[k] = 1 =>
              /\ dest[k].exists
              /\ \E p \in Instances : dest[k] = [NewDoc(p) EXCEPT !.migratedAt = "time"]
        /\ ~rerun => (writes[k] = 1 <=> dest[k] # dest0[k])

CreatedOnceWitness ==
    /\ rerun /\ pc = "Done"
    /\ \E k \in Keys :
          /\ writes[k] = 1
          /\ InstancesWith(k) = Instances
          /\ prev.st[<<1, k>>] = "Committed" /\ prev.st[<<2, k>>] = "Skipped"
          /\ st[<<1, k>>] = "Skipped" /\ st[<<2, k>>] = "Skipped"

(***************************************************************************)
(* C20: the commits are attempted in the order of the source collections,  *)
(* and when a lookup of a source collection is issued every batch of the   *)
(* collections before it has been attempted and none of this collection,   *)
(* so that no document of an earlier collection is left queued; while the  *)
(* collections are read nothing has been looked up or committed.           *)
(***************************************************************************)
Sequencing ==
    /\ \A n, m \in 1..Len(attempts) : n < m => attempts[n].p <= attempts[m].p
    /\ \A n \in 1..Len(attempts) : attempts[n].p <= cur
    /\ pc = "Check" =>
          /\ bi = 0
          /\ \A n \in 1..Len(attempts) : attempts[n].p < cur
          /\ \A r \in SourceRecs : r[1] < cur => st[r] \in Terminal
          /\ \A p \in Instances : p < cur =>
                Len(AttemptsOf(p)) = Ceil(QueuedOf(p), batchSize)
          /\ \A r \in SourceRecs : r[1] > cur => st[r] = "Pending"
    /\ pc \in {"Load", "GetUsers", "Read1", "Read2"} =>
          /\ attempts = <<>> /\ cur = 0
          /\ \A r \in SourceRecs : st[r] = "Pending"

SequencingWitness ==
    /\ pc = "Check" /\ cur = 2
    /\ Len(AttemptsOf(1)) = 2
    /\ ~attempts[1].ok /\ attempts[2].ok

(***************************************************************************)
(* C21 as stated: a source collection is read only after the commits of    *)
(* the collection before it are over: while instance2 is being read, and   *)
(* once it has been read, no document of instance1 is left unchecked or     *)
(* queued.                                                                 *)
(***************************************************************************)
PhaseOrder ==
    (pc = "Read2" \/ snap[2] # <<>>) =>
        \A r \in SourceRecs : r[1] = 1 => st[r] \in Terminal

\* The steps of one source document (spec: Pending -> Skipped | Queued,
\* Queued -> Committed | Failed).
RecordSteps ==
    \A r \in Recs : st'[r] # st[r] =>
        <<st[r], st'[r]>> \in {<<"Pending", "Skipped">>, <<"Pending", "Queued">>,
                              <<"Queued", "Committed">>, <<"Queued", "Failed">>}

(***************************************************************************)
(* C22 as stated: a source document goes from Pending to Skipped or        *)
(* Queued and from Queued to Committed or Failed, by no other step, and    *)
(* when the run has ended every source document is Skipped, Committed or   *)
(* Failed (every run that has read both source collections, to leave aside *)
(* the runs that end before they have a document at hand).                 *)
(***************************************************************************)
RecordStateMachine ==
    /\ [][RecordSteps]_vars
    /\ []((pc \in {"Done", "Failed"} /\ failedAt \notin {"GetUsers", "Read1", "Read2"})
            => \A r \in SourceRecs : st[r] \in Terminal)

\* The ids of the writes of a sequence of batches, in order.
RECURSIVE BatchIds(_)
BatchIds(bs) ==
    IF bs = <<>> THEN <<>>
    ELSE [n \in 1..Len(Head(bs)) |-> Head(bs)[n].id] \o BatchIds(Tail(bs))

\* The ids of snapshot s whose write was queued, in the order of s.
QueuedIds(p, s) ==
    SelectSeq(s, LAMBDA k : st[<<p, k>>] \in {"Queued", "Committed", "Failed"})

(***************************************************************************)
(* C23: the commit attempts of a source collection are its batches in the  *)
(* order in which they were formed (the order of the documents), batch     *)
(* after batch, each attempted once whether the attempt resolves or        *)
(* rejects: the n-th attempt is that of the n-th batch, the batches        *)
(* before the current one have had their attempt and their documents are   *)
(* Committed or Failed, the others are still queued.                       *)
(***************************************************************************)
OrderedSingleAttempt ==
    /\ \A p \in Instances :
          \A n \in 1..Len(AttemptsOf(p)) : AttemptsOf(p)[n].index = n
    /\ pc = "Commit" =>
          /\ bi \in 1..Len(batches)
          /\ Len(AttemptsOf(cur)) = bi - 1
          /\ BatchIds(batches) = QueuedIds(cur, snap[cur])
          /\ \A n \in 1..Len(batches) :
                /\ n < bi => AttemptsOf(cur)[n].size = Len(batches[n])
                /\ \A k \in BatchKeys(batches[n]) :
                      IF n < bi
                      THEN st[<<cur, k>>] =
                              (IF AttemptsOf(cur)[n].ok THEN "Committed" ELSE "Failed")
                      ELSE st[<<cur, k>>] = "Queued"

OrderedSingleAttemptWitness ==
    /\ pc = "Commit" /\ cur = 2 /\ bi = 2
    /\ Len(batches) = 2
    /\ ~AttemptsOf(2)[1].ok

(***************************************************************************)
(* C24: no id is in two writes of the batches of a call of migrateInstance *)
(* (the closed batches and the open one), and the ids in them are those of *)
(* the documents of the source collection whose lookup found no document   *)
(* in 'users'; batches are per call, so no source document is in a batch   *)
(* of the other collection.  In the commit loop the open batch is the      *)
(* last of the batches (line 113 pushes that very object) or is empty.     *)
(***************************************************************************)
BatchDisjoint ==
    LET ids == BatchIds(batches) \o
                  (IF pc = "Commit" THEN <<>> ELSE BatchIds(<<currentBatch>>))
    IN /\ \A n, m \in 1..Len(ids) : n # m => ids[n] # ids[m]
       /\ cur \in Instances =>
             /\ ids = QueuedIds(cur, snap[cur])
             /\ pc = "Check" =>
                   \A r \in SourceRecs : (Handled(r) /\ r[1] = cur) =>
                       (~dest[r[2]].exists <=>
                           Cardinality({n \in 1..Len(ids) : ids[n] = r[2]}) = 1)
       /\ cur \notin Instances => ids = <<>>
       /\ (pc = "Commit" /\ operationCount > 0) =>
             currentBatch = batches[Len(batches)]

BatchDisjointWitness ==
    /\ pc = "Commit" /\ Len(batches) = 2
    /\ \E k \in Keys : st[<<cur, k>>] = "Queued"
    /\ cur = 2 /\ \E k \in Keys : st[<<1, k>>] = "Failed" /\ st[<<2, k>>] = "Queued"

\* The ids that have a document in d.
Present(d) == {k \in Keys : d[k].exists}

\* One step of the run leaves the source collections as they are and
\* changes 'users' only by creating documents that were absent, with the
\* writes of the batch being committed.
FrameStep ==
    /\ inst' = inst
    /\ \A k \in Keys : dest'[k] # dest[k] =>
          /\ ~dest[k].exists /\ dest'[k].exists
          /\ pc = "Commit" /\ k \in BatchKeys(batches[bi])

(***************************************************************************)
(* C25: no step of a run changes a source collection, and a step changes   *)
(* 'users' only by creating documents for ids that had none; so the source *)
(* collections are the same before and after a run, whatever rejects.      *)
(***************************************************************************)
FrameEffect == [][FrameStep]_vars

FrameEffectWitness ==
    /\ pc = "Done"
    /\ \A p \in Instances : snap[p] = inst[p] /\ Len(inst[p]) > 0
    /\ \E n \in 1..Len(attempts) : ~attempts[n].ok
    /\ \E k \in Keys : ~dest0[k].exists /\ dest[k].exists
    /\ \E k \in Keys : dest0[k].exists

(***************************************************************************)
(* C27: during a run no id of 'users' loses its document, and at every     *)
(* point of the run, its end included, the number of documents of 'users'  *)
(* is the number at the start of the run plus the total number of writes   *)
(* of the batches whose commit has resolved.                               *)
(***************************************************************************)
DestinationGrowth ==
    /\ [][Present(dest) \subseteq Present(dest')]_vars
    /\ [](/\ Present(dest0) \subseteq Present(dest)
          /\ Cardinality(Present(dest)) =
                Cardinality(Present(dest0)) + SumSizes(attempts, TRUE))

DestinationGrowthWitness ==
    /\ pc = "Done"
    /\ Cardinality(Present(dest0)) = 1
    /\ Cardinality(Present(dest)) = 3
    /\ Len(attempts) = 2 /\ ~attempts[1].ok
    /\ SumSizes(attempts, TRUE) = 2

\* The tags under which lines 140-144 can count a document.
Tags == {InstanceName(p) : p \in Instances} \cup {"unknown"}

(***************************************************************************)
(* C28: at the end of a run the counts by tag add up to the number of      *)
(* documents of the final read of 'users'; a document is counted under the *)
(* value of its 'instance' field and under no other tag, a document        *)
(* without the field (or with an empty one) under 'unknown'; a tag that     *)
(* is listed has at least one document.                                    *)
(***************************************************************************)
TallyComplete ==
    pc = "Done" =>
        /\ DOMAIN instanceCounts \subseteq Tags
        /\ CountFor("instance1") + CountFor("instance2") + CountFor("unknown")
              = Cardinality(Present(dest))
        /\ \A t \in Tags \ {"unknown"} :
              CountFor(t) = Cardinality({k \in Present(dest) : dest[k].instance = t})
        /\ CountFor("unknown") =
              Cardinality({k \in Present(dest) : dest[k].instance = ""})
        /\ \A t \in DOMAIN instanceCounts : instanceCounts[t] >= 1

TallyCompleteWitness ==
    /\ pc = "Done"
    /\ CountFor("unknown") >= 1
    /\ CountFor("instance1") >= 1
    /\ CountFor("instance2") >= 1

(***************************************************************************)
(* C26 as stated: a document that another writer creates in 'users' during *)
(* a run is not overwritten by the run, also when it is created after the  *)
(* lookup of its id found nothing and before the batch with that id is     *)
(* committed (a document created before the lookup is found by it).        *)
(***************************************************************************)
NoOverwriteExternal == \A k \in ext : dest[k] = ExternalDoc

(***************************************************************************)
(* C29: ProtectedRoute shows its children only when loading is false and   *)
(* a user is signed in; when it is mounted with loading false and no user, *)
(* it shows the redirection notice instead and router.push('/login') has   *)
(* been called for these values or the effect that calls it is scheduled;  *)
(* when loading is true it shows the spinner and no push has been called   *)
(* for these values; a push is called in no other case.                    *)
(***************************************************************************)
AuthGate ==
    /\ view = "children" => (Mounted /\ ~loading /\ user # NoUser)
    /\ (Mounted /\ ~loading /\ user # NoUser) => (view = "children" /\ ~redirected)
    /\ (Mounted /\ ~loading /\ user = NoUser) =>
          /\ view = "redirecting"
          /\ redirected \/ effect
    /\ (Mounted /\ loading) => (view = "spinner" /\ ~redirected)
    /\ redirected => (Mounted /\ ~loading /\ user = NoUser /\ nav = "/login")
    /\ ~Mounted => (view = "none" /\ ~redirected)

AuthGateWitness ==
    /\ Mounted /\ ~loading /\ user = NoUser
    /\ view = "redirecting" /\ redirected /\ ~effect
    /\ nav = "/login"

=============================================================================
